---- MODULE Spec2Model ----
(***************************************************************************)
(* Model of the universal testnet bot: src/index.js and its variant        *)
(* universal_testnet_bot.js (src/unnamed/part_000:243-710).  It covers the *)
(* activity runner runDailyActivityLoop, the menu handlers, the log buffer *)
(* and the Bridge / Swap executors.                                        *)
(*                                                                         *)
(* JavaScript runs one handler at a time: a handler or an async function   *)
(* runs without interruption up to its next `await` on a network call or a *)
(* timer.  Every action below is one such uninterrupted segment.           *)
(*                                                                         *)
(* The specifications share the variables:                                 *)
(*   Spec         the runner and the control surface of both programs; an  *)
(*                executor call is in flight and then returns true or      *)
(*                false; the calls and sleeps of each run are recorded     *)
(*   SpecFair     Spec, where timers fire and executor calls return        *)
(*   SpecLive     SpecFair without the record of the runs                  *)
(*   SpecOutcome  the same steps, recording whether a call returned false  *)
(*   SpecOut      the same steps, recording the log entries of every turn  *)
(*   SpecSnap     the same steps, recording the config a run started with  *)
(*   SpecAgain    the same steps, recording whether the run before the     *)
(*                current one was stopped                                  *)
(*   SpecExec     the inside of one executor call of index.js              *)
(*   SpecNonce    executor calls of index.js one after another, with the   *)
(*                transaction counts of the accounts kept between them     *)
(*   SpecAmount   the amount a Bridge call derives, in both programs       *)
(*   SpecLog      the log buffer of index.js under addLog and Clear Logs   *)
(*   SpecConfig   config.json and the config in memory of index.js         *)
(*   SpecKeys     loadPrivateKeys of index.js on pk.txt                    *)
(***************************************************************************)
EXTENDS Integers, Sequences, FiniteSets, TLC

VARIABLES
    variant,              \* the program that runs: "index" (src/index.js) or "utb"
                          \* (universal_testnet_bot.js, src/unnamed/part_000:243-710)
    privateKeys,          \* index.js:47   the account list (sequence of keys)
    proxies,              \* index.js:48   the proxy list
    dailyActivityConfig,  \* index.js:49   [bridgeRepetitions, swapRepetitions]
    activityRunning,      \* index.js:51
    shouldStop,           \* index.js:52
    statusText,           \* index.js:344  content of the status box
    alive,                \* FALSE once process.exit ran
    loops,                \* activations of runDailyActivityLoop that are suspended at an await
    refreshPending,       \* a "Refresh Wallets" handler is suspended at await refreshWalletList()
    logOut,               \* the entries the last step passed to addLog, in order
    trace,                \* ghost: executor calls and sleeps started since the last accepted start
    run,                  \* ghost: what happened to the current / most recent run
    obs,                  \* what the specification observes of the outputs and the ghosts
    transactionLogs,      \* index.js:50   the log buffer (SpecLog)
    appended,             \* ghost: addLog calls since the last clear (SpecLog)
    ex,                   \* the executor call under way (SpecExec)
    chain,                \* the network as the executor sees it (SpecExec)
    configFile,           \* index.js:40   what config.json holds (SpecConfig)
    pkFile                \* index.js:38   what pk.txt holds (SpecKeys)

vars == <<variant, privateKeys, proxies, dailyActivityConfig, activityRunning, shouldStop,
          statusText, alive, loops, refreshPending, logOut, trace, run, obs,
          transactionLogs, appended, ex, chain, configFile, pkFile>>

runnerVars == <<variant, privateKeys, proxies, dailyActivityConfig, activityRunning, shouldStop,
                statusText, alive, loops, refreshPending, logOut, trace, run, obs>>
logVars == <<transactionLogs, appended>>
execVars == <<ex, chain>>
fileVars == <<configFile, pkFile>>

(***************************************************************************)
(* Bounds of the model                                                     *)
(***************************************************************************)
MaxKeys == 2
MaxProxies == 2
MaxReps == 2

(***************************************************************************)
(* Program constants                                                       *)
(***************************************************************************)
LogLimit == 1000
RepSleepMin == 8000
RepSleepMax == 20000
GapSleepMin == 7000
GapSleepMax == 15000
UtbGapSleepMin == 8000
AccountSleepMs == 30000
Null == 0

\* Where the two programs differ: what index.js does, what the variant does
Either(index, utb) == IF variant = "utb" THEN utb ELSE index

Max(a, b) == IF a >= b THEN a ELSE b
Min(a, b) == IF a <= b THEN a ELSE b

(***************************************************************************)
(* Values                                                                  *)
(***************************************************************************)
\* pk.txt as loadPrivateKeys finds it: keys are opaque, a file is a list of up to
\* max keys.
KeyFiles(max) == {[j \in 1..n |-> j] : n \in 0..max}

\* proxy.txt as loadProxies finds it.
ProxyFiles(max) == {[j \in 1..n |-> 100 + j] : n \in 0..max}

\* The text of a textbox of the config form (or a field of config.json): digits
\* of an integer up to max, or some other text.
ConfigInputs(max) ==
    {[kind |-> "digits", n |-> k] : k \in 0..max}
        \cup {[kind |-> "text", n |-> 0]}

\* JavaScript Number(x): a number, or NaN.
ToNumber(x) ==
    CASE x.kind = "digits" -> [nan |-> FALSE, v |-> x.n]
      [] OTHER -> [nan |-> TRUE, v |-> 0]

\* JavaScript `x || 1` on a Number: NaN and 0 are falsy.
OrOne(x) == IF x.nan \/ x.v = 0 THEN 1 ELSE x.v

\* `n || 1` on a number held in dailyActivityConfig.
OrOneNum(n) == IF n = 0 THEN 1 ELSE n

ValuesOf(configInputs) == {OrOne(ToNumber(x)) : x \in configInputs}

\* The texts above and the digits of negative integers down to -max
SignedInputs(max) ==
    ConfigInputs(max) \cup {[kind |-> "digits", n |-> -k] : k \in 1..max}

\* A field of the object in config.json: a value as above, or no such field
\* (c.bridgeRepetitions is then undefined, and Number(undefined) is NaN)
Missing == [kind |-> "missing", n |-> 0]
ConfigFields(max) == SignedInputs(max) \cup {Missing}

\* config.json: absent, text that JSON.parse rejects, or an object
Absent == [kind |-> "absent", bridgeRepetitions |-> Missing, swapRepetitions |-> Missing]
Unparsable == [kind |-> "unparsable", bridgeRepetitions |-> Missing, swapRepetitions |-> Missing]
ConfigFiles(max) ==
    {Absent, Unparsable}
        \cup {[kind |-> "json", bridgeRepetitions |-> b, swapRepetitions |-> s] :
                 b \in ConfigFields(max), s \in ConfigFields(max)}

\* the value of configFile in a specification that does not follow config.json
Unobserved == [kind |-> "unobserved", bridgeRepetitions |-> Missing, swapRepetitions |-> Missing]

\* deliberately wrong variant: the two fields are written the wrong way round
StringifySwapped(config) ==
    [kind |-> "json",
     bridgeRepetitions |-> [kind |-> "digits", n |-> config.swapRepetitions],
     swapRepetitions |-> [kind |-> "digits", n |-> config.bridgeRepetitions]]

\* JSON.stringify(dailyActivityConfig, null, 2): both fields, each as the digits
\* of its number
Stringify(config) ==
    [kind |-> "json",
     bridgeRepetitions |-> [kind |-> "digits", n |-> config.bridgeRepetitions],
     swapRepetitions |-> [kind |-> "digits", n |-> config.swapRepetitions]]

\* A log entry as addLog receives it: the message, its level, and the account
\* number the message names (0 when it names none).
Entry(msg, type, acct) == [msg |-> msg, type |-> type, acct |-> acct]

\* deliberately wrong variant: every account gets the first proxy
ProxyForFirst(px, i) == IF px = <<>> THEN Null ELSE px[1]

\* proxies[i % Math.max(1, proxies.length)] || null  (an index past the end reads
\* undefined, which `|| null` turns into null)
ProxyFor(px, i) ==
    LET idx == i % Max(1, Len(px))
    IN  IF idx < Len(px) THEN px[idx + 1] ELSE Null

\* The universal_testnet_bot variant (part_000:551): proxies[i % proxies.length] || null.
\* With an empty list i % 0 is NaN, proxies[NaN] is undefined, and `|| null` gives null.
ProxyForUTB(px, i) == IF Len(px) = 0 THEN Null ELSE px[(i % Len(px)) + 1]

\* Math.random() is r / RandomGrid for an r in 0..(RandomGrid - 1)
RandomGrid == 100000

\* deliberately wrong variant: the draw is not shifted by minMs
SleepRandomUnshifted(minMs, maxMs, r) == (r * (maxMs - minMs + 1)) \div RandomGrid

\* sleepRandom(minMs, maxMs) (index.js:323-326):
\* Math.floor(Math.random() * (maxMs - minMs + 1)) + minMs
SleepRandom(minMs, maxMs, r) == ((r * (maxMs - minMs + 1)) \div RandomGrid) + minMs

\* the shortest and the longest sleep sleepRandom can draw (it grows with r)
Shortest(minMs, maxMs) == SleepRandom(minMs, maxMs, 0)
Longest(minMs, maxMs) == SleepRandom(minMs, maxMs, RandomGrid - 1)

RemoveAt(seq, k) == [j \in 1..(Len(seq) - 1) |-> IF j < k THEN seq[j] ELSE seq[j + 1]]

(***************************************************************************)
(* runDailyActivityLoop: the synchronous segments between two awaits.      *)
(* A segment yields the activation at its next await (pc = "done" when the *)
(* loop is left), the entries it logged and the calls / sleeps it started. *)
(***************************************************************************)
NewActivation ==
    [pc |-> "start", i |-> 0, b |-> 0, s |-> 0, pk |-> Null, proxyUrl |-> Null]

Seg(a, out, ev) == [a |-> a, out |-> out, ev |-> ev]

\* A call or sleep the loop starts: the executor ("bridge", "swap") or the sleep
\* ("repSleep", "gap", "accountSleep"), the account index, the repetition counter
\* and, for a sleep, the bounds of its duration in ms.
Event(op, a, rep, lo, hi) == [op |-> op, i |-> a.i, rep |-> rep, lo |-> lo, hi |-> hi]

\* deliberately wrong variant: the bridge loop runs one repetition too many
BridgeTestOneMore(a, stop, out) ==
    IF a.b <= OrOneNum(dailyActivityConfig.bridgeRepetitions) /\ ~stop
    THEN Seg([a EXCEPT !.pc = "bridge"], out, <<Event("bridge", a, a.b, 0, 0)>>)
    ELSE Seg([a EXCEPT !.pc = "gap"], out, <<Event("gap", a, 0, Shortest(Either(GapSleepMin, UtbGapSleepMin), GapSleepMax),
                      Longest(Either(GapSleepMin, UtbGapSleepMin), GapSleepMax))>>)

\* deliberately wrong variant: the bridge loop does not look at shouldStop
BridgeTestIgnoringStop(a, stop, out) ==
    IF a.b < OrOneNum(dailyActivityConfig.bridgeRepetitions)
    THEN Seg([a EXCEPT !.pc = "bridge"], out, <<Event("bridge", a, a.b, 0, 0)>>)
    ELSE Seg([a EXCEPT !.pc = "gap"], out, <<Event("gap", a, 0, Shortest(Either(GapSleepMin, UtbGapSleepMin), GapSleepMax),
                      Longest(Either(GapSleepMin, UtbGapSleepMin), GapSleepMax))>>)

\* for (let b = ...; b < (bridgeRepetitions || 1) && !shouldStop; ...) performBridgeSimple
\* and, when the loop is left, await sleepRandom(7000, 15000); the variant sleeps
\* sleepRandom(8000, 15000) (part_000:561)
BridgeTest(a, stop, out) ==
    IF a.b < OrOneNum(dailyActivityConfig.bridgeRepetitions) /\ ~stop
    THEN Seg([a EXCEPT !.pc = "bridge"], out, <<Event("bridge", a, a.b, 0, 0)>>)
    ELSE Seg([a EXCEPT !.pc = "gap"], out, <<Event("gap", a, 0, Shortest(Either(GapSleepMin, UtbGapSleepMin), GapSleepMax),
                      Longest(Either(GapSleepMin, UtbGapSleepMin), GapSleepMax))>>)

\* deliberately wrong variant: the sleep follows every repetition, the last one too
AfterBridgeAlwaysSleeps(a, stop, out) ==
    Seg([a EXCEPT !.pc = "bridge_sleep"], out,
        <<Event("repSleep", a, a.b, Shortest(RepSleepMin, RepSleepMax),
                Longest(RepSleepMin, RepSleepMax))>>)

\* if (b < bridgeRepetitions - 1) await sleepRandom(8000, 20000); then b++
AfterBridge(a, stop, out) ==
    IF a.b < dailyActivityConfig.bridgeRepetitions - 1
    THEN Seg([a EXCEPT !.pc = "bridge_sleep"], out,
             <<Event("repSleep", a, a.b, Shortest(RepSleepMin, RepSleepMax),
                     Longest(RepSleepMin, RepSleepMax))>>)
    ELSE BridgeTest([a EXCEPT !.b = a.b + 1], stop, out)

\* for (let i = ...; i < privateKeys.length && !shouldStop; ...): the head of the
\* account loop up to the first bridge, or the end of the loop
LoopTest(a, stop, out) ==
    IF a.i < Len(privateKeys) /\ ~stop
    THEN BridgeTest([a EXCEPT !.pk = privateKeys[a.i + 1],
                              !.proxyUrl = Either(ProxyFor(proxies, a.i),
                                                  ProxyForUTB(proxies, a.i)),
                              !.b = 0, !.s = 0],
                    stop,
                    out \o <<Entry("Processing account", "info", a.i + 1)>>)
    ELSE Seg([a EXCEPT !.pc = "done"],
             out \o <<Entry(Either("Activity loop finished for all accounts",
                                    "Daily loop finished."), "success", 0)>>, <<>>)

\* deliberately wrong variant: the 30 s sleep follows the last account too
SwapTestAlwaysWaits(a, stop, out) ==
    IF a.s < OrOneNum(dailyActivityConfig.swapRepetitions) /\ ~stop
    THEN Seg([a EXCEPT !.pc = "swap"], out, <<Event("swap", a, a.s, 0, 0)>>)
    ELSE Seg([a EXCEPT !.pc = "account_sleep"],
             out \o <<Entry("Waiting 30s before next account...", "wait", 0)>>,
             <<Event("accountSleep", a, 0, AccountSleepMs, AccountSleepMs)>>)

\* for (let s = ...; s < (swapRepetitions || 1) && !shouldStop; ...) performSwapSimple
\* and, when the loop is left, the 30 s wait or the next account
SwapTest(a, stop, out) ==
    IF a.s < OrOneNum(dailyActivityConfig.swapRepetitions) /\ ~stop
    THEN Seg([a EXCEPT !.pc = "swap"], out, <<Event("swap", a, a.s, 0, 0)>>)
    ELSE IF a.i < Len(privateKeys) - 1
         THEN Seg([a EXCEPT !.pc = "account_sleep"],
                  out \o <<Entry("Waiting 30s before next account...", "wait", 0)>>,
                  <<Event("accountSleep", a, 0, AccountSleepMs, AccountSleepMs)>>)
         ELSE LoopTest([a EXCEPT !.i = a.i + 1], stop, out)

\* if (s < swapRepetitions - 1) await sleepRandom(8000, 20000); then s++
AfterSwap(a, stop, out) ==
    IF a.s < dailyActivityConfig.swapRepetitions - 1
    THEN Seg([a EXCEPT !.pc = "swap_sleep"], out,
             <<Event("repSleep", a, a.s, Shortest(RepSleepMin, RepSleepMax),
                     Longest(RepSleepMin, RepSleepMax))>>)
    ELSE SwapTest([a EXCEPT !.s = a.s + 1], stop, out)

(***************************************************************************)
(* Ghost record of a run (not program state): what the claims speak about  *)
(***************************************************************************)
\* end        how the run ended: "none" (not yet, or no run), "finished", "fault"
\* disturbed  the config or the account list changed since the run started
\* stopReq    a stop request was accepted during the run
\* stopMark   a stop request was accepted while a Bridge call was in flight
\* anyFailed  an executor call of the run returned false
\* cfg        dailyActivityConfig as it was when the run started
\* afterStop  the run before this one ended after a stop request
NewRun ==
    [end |-> "none", disturbed |-> FALSE, stopReq |-> FALSE, stopMark |-> FALSE,
     anyFailed |-> FALSE, cfg |-> [bridgeRepetitions |-> 1, swapRepetitions |-> 1],
     afterStop |-> FALSE]

\* What a specification observes is fixed by its initial condition: "log" the
\* entries passed to addLog, "run" the ghost record and the trace, "outcome"
\* whether a call of the run returned false.  The program reads none of them,
\* so what is left unobserved does not change what it does.  "snapshot" keeps
\* the config a run started with, "history" whether the run before was stopped.
Logged(out) == logOut' = IF "log" \in obs THEN out ELSE logOut
Noted(g) == run' = IF "run" \in obs THEN g ELSE run
Traced(t) == trace' = IF "run" \in obs THEN t ELSE trace
Persisted(f) == configFile' = IF "file" \in obs THEN f ELSE configFile

\* ghost: the record of a run that starts now
Started ==
    [NewRun EXCEPT !.cfg = IF "snapshot" \in obs THEN dailyActivityConfig ELSE @,
                   !.afterStop = "history" \in obs /\ run.stopReq /\ run.end = "finished"]

\* ghost: the trace is kept for a run whose config and account list have not
\* changed since it started, and dropped when they change
Disturb(changed) ==
    /\ Noted([run EXCEPT !.disturbed = @ \/ changed])
    /\ Traced(IF run.disturbed \/ changed THEN <<>> ELSE trace)

IsCall(e) == e.op \in {"bridge", "swap"}
Calls(t) == SelectSeq(t, IsCall)

(***************************************************************************)
(* The runner's steps                                                      *)
(***************************************************************************)
\* deliberately wrong variant: the loop ends without clearing the flags
ResumeWithoutFinally(k, seg, g) ==
    /\ Logged(seg.out)
    /\ Traced(IF g.disturbed THEN <<>> ELSE trace \o seg.ev)
    /\ IF seg.a.pc = "done"
       THEN /\ loops' = RemoveAt(loops, k)
            /\ UNCHANGED <<activityRunning, shouldStop>>
            /\ Noted([g EXCEPT !.end = "finished"])
       ELSE /\ loops' = [loops EXCEPT ![k] = seg.a]
            /\ UNCHANGED <<activityRunning, shouldStop>>
            /\ Noted(g)

\* What a segment leaves behind: the activation at its next await, or the
\* `finally` block (index.js:316-319) when the loop was left; the variant has no
\* finally and clears activityRunning only (part_000:576).  g is the ghost
\* record of the run.
Resume(k, seg, g) ==
    /\ Logged(seg.out)
    /\ Traced(IF g.disturbed THEN <<>> ELSE trace \o seg.ev)
    /\ IF seg.a.pc = "done"
       THEN /\ loops' = RemoveAt(loops, k)
            /\ activityRunning' = FALSE
            /\ shouldStop' = Either(FALSE, shouldStop)
            /\ Noted([g EXCEPT !.end = "finished"])
       ELSE /\ loops' = [loops EXCEPT ![k] = seg.a]
            /\ UNCHANGED <<activityRunning, shouldStop>>
            /\ Noted(g)

Returned(ok) == IF "outcome" \in obs THEN [run EXCEPT !.anyFailed = @ \/ ~ok] ELSE run

\* deliberately wrong variant: a Bridge call that returned false is made again
BridgeReturnRetrying(k, ok) ==
    /\ alive
    /\ loops[k].pc = "bridge"
    /\ Resume(k, IF ok THEN AfterBridge(loops[k], shouldStop, <<>>)
                       ELSE Seg(loops[k], <<>>, <<Event("bridge", loops[k], loops[k].b, 0, 0)>>),
              Returned(ok))
    /\ UNCHANGED <<privateKeys, proxies, dailyActivityConfig, statusText, alive,
                   refreshPending, variant, obs, logVars, execVars, fileVars>>

\* await performBridgeSimple(pk, proxyUrl, i) returns ok
BridgeReturn(k, ok) ==
    /\ alive
    /\ loops[k].pc = "bridge"
    /\ Resume(k, AfterBridge(loops[k], shouldStop, <<>>), Returned(ok))
    /\ UNCHANGED <<privateKeys, proxies, dailyActivityConfig, statusText, alive,
                   refreshPending, variant, obs, logVars, execVars, fileVars>>

\* the timer of sleepRandom(8000, 20000) after a bridge fires
BridgeSleepDone(k) ==
    /\ alive
    /\ loops[k].pc = "bridge_sleep"
    /\ Resume(k, BridgeTest([loops[k] EXCEPT !.b = @ + 1], shouldStop, <<>>), run)
    /\ UNCHANGED <<privateKeys, proxies, dailyActivityConfig, statusText, alive,
                   refreshPending, variant, obs, logVars, execVars, fileVars>>

\* the timer of sleepRandom(7000, 15000) fires
GapDone(k) ==
    /\ alive
    /\ loops[k].pc = "gap"
    /\ Resume(k, SwapTest([loops[k] EXCEPT !.s = 0], shouldStop, <<>>), run)
    /\ UNCHANGED <<privateKeys, proxies, dailyActivityConfig, statusText, alive,
                   refreshPending, variant, obs, logVars, execVars, fileVars>>

\* await performSwapSimple(pk, proxyUrl, i) returns ok
SwapReturn(k, ok) ==
    /\ alive
    /\ loops[k].pc = "swap"
    /\ Resume(k, AfterSwap(loops[k], shouldStop, <<>>), Returned(ok))
    /\ UNCHANGED <<privateKeys, proxies, dailyActivityConfig, statusText, alive,
                   refreshPending, variant, obs, logVars, execVars, fileVars>>

\* the timer of sleepRandom(8000, 20000) after a swap fires
SwapSleepDone(k) ==
    /\ alive
    /\ loops[k].pc = "swap_sleep"
    /\ Resume(k, SwapTest([loops[k] EXCEPT !.s = @ + 1], shouldStop, <<>>), run)
    /\ UNCHANGED <<privateKeys, proxies, dailyActivityConfig, statusText, alive,
                   refreshPending, variant, obs, logVars, execVars, fileVars>>

\* the timer of sleep(30_000) fires
AccountSleepDone(k) ==
    /\ alive
    /\ loops[k].pc = "account_sleep"
    /\ Resume(k, LoopTest([loops[k] EXCEPT !.i = @ + 1], shouldStop, <<>>), run)
    /\ UNCHANGED <<privateKeys, proxies, dailyActivityConfig, statusText, alive,
                   refreshPending, variant, obs, logVars, execVars, fileVars>>

\* deliberately wrong variant: a fault is logged but the flags are left as they are
RunnerFaultNoFinally(k) ==
    /\ alive
    /\ k \in 1..Len(loops)
    /\ Logged(<<Entry("Runner unexpected error", "error", 0)>>)
    /\ loops' = RemoveAt(loops, k)
    /\ Noted([run EXCEPT !.end = "fault"])
    /\ UNCHANGED <<privateKeys, proxies, dailyActivityConfig, activityRunning, shouldStop,
                   statusText, alive, refreshPending, trace, variant, obs, logVars, execVars, fileVars>>

\* An unexpected fault: the loop resumes from its await with an exception.  The
\* catch block logs it (index.js:314-315) and the finally block clears the flags.
\* The variant has neither: the rejected promise is logged by the caller's
\* .catch (part_000:622) and the flags stay as they are.
RunnerFault(k) ==
    /\ alive
    /\ k \in 1..Len(loops)
    /\ Logged(<<Entry(Either("Runner unexpected error", "Runner failed"), "error", 0)>>)
    /\ loops' = RemoveAt(loops, k)
    /\ activityRunning' = Either(FALSE, activityRunning)
    /\ shouldStop' = Either(FALSE, shouldStop)
    /\ Noted([run EXCEPT !.end = "fault"])
    /\ UNCHANGED <<privateKeys, proxies, dailyActivityConfig, statusText, alive,
                   refreshPending, trace, variant, obs, logVars, execVars, fileVars>>

(***************************************************************************)
(* The control surface: handleMenuAction                                   *)
(***************************************************************************)
\* deliberately wrong variant: the loop starts on an empty account list
RunDailyActivityLoopNoKeyGuard ==
    IF activityRunning
    THEN /\ Logged(<<Entry("Activity already running", "warn", 0)>>)
         /\ UNCHANGED <<activityRunning, shouldStop, loops, trace, run>>
    ELSE LET seg == LoopTest(NewActivation, FALSE,
                             <<Entry("Starting activity loop", "success", 0)>>)
         IN  /\ Logged(seg.out)
             /\ Traced(seg.ev)
             /\ IF seg.a.pc = "done"
                THEN /\ loops' = loops
                     /\ activityRunning' = FALSE
                     /\ shouldStop' = FALSE
                     /\ Noted([Started EXCEPT !.end = "finished"])
                ELSE /\ loops' = Append(loops, seg.a)
                     /\ activityRunning' = TRUE
                     /\ shouldStop' = FALSE
                     /\ Noted(Started)

\* deliberately wrong variant: the start does not clear shouldStop
RunDailyActivityLoopKeepingStop ==
    IF privateKeys = <<>>
    THEN /\ Logged(<<Entry(Either("No private keys loaded. Add keys to pk.txt",
                                  "No private keys loaded. Aborting activity."), "error", 0)>>)
         /\ activityRunning' = Either(activityRunning, FALSE)
         /\ UNCHANGED <<shouldStop, loops, trace, run>>
    ELSE IF activityRunning /\ variant = "index"
    THEN /\ Logged(<<Entry("Activity already running", "warn", 0)>>)
         /\ UNCHANGED <<activityRunning, shouldStop, loops, trace, run>>
    ELSE LET seg == LoopTest(NewActivation, shouldStop,
                             <<Entry(Either("Starting activity loop",
                                            "Starting daily activity loop"), "success", 0)>>)
         IN  /\ Logged(seg.out)
             /\ Traced(seg.ev)
             /\ IF seg.a.pc = "done"
                THEN /\ loops' = loops
                     /\ activityRunning' = FALSE
                     /\ shouldStop' = Either(FALSE, shouldStop)
                     /\ Noted([Started EXCEPT !.end = "finished"])
                ELSE /\ loops' = Append(loops, seg.a)
                     /\ activityRunning' = TRUE
                     /\ shouldStop' = shouldStop
                     /\ Noted(Started)

\* runDailyActivityLoop() as the Start handler calls it: the guards, the flags
\* and the loop up to its first await (index.js:278-296).  The variant has no
\* guard on activityRunning of its own and clears the flag when it finds no key
\* (part_000:540-553).
RunDailyActivityLoop ==
    IF privateKeys = <<>>
    THEN /\ Logged(<<Entry(Either("No private keys loaded. Add keys to pk.txt",
                                  "No private keys loaded. Aborting activity."), "error", 0)>>)
         /\ activityRunning' = Either(activityRunning, FALSE)
         /\ UNCHANGED <<shouldStop, loops, trace, run>>
    ELSE IF activityRunning /\ variant = "index"
    THEN /\ Logged(<<Entry("Activity already running", "warn", 0)>>)
         /\ UNCHANGED <<activityRunning, shouldStop, loops, trace, run>>
    ELSE LET seg == LoopTest(NewActivation, FALSE,
                             <<Entry(Either("Starting activity loop",
                                            "Starting daily activity loop"), "success", 0)>>)
         IN  /\ Logged(seg.out)
             /\ Traced(seg.ev)
             /\ IF seg.a.pc = "done"
                THEN /\ loops' = loops
                     /\ activityRunning' = FALSE
                     /\ shouldStop' = FALSE
                     /\ Noted([Started EXCEPT !.end = "finished"])
                ELSE /\ loops' = Append(loops, seg.a)
                     /\ activityRunning' = TRUE
                     /\ shouldStop' = FALSE
                     /\ Noted(Started)

\* deliberately wrong variant: a start request begins a loop whether or not one is running
StartActivityUnguarded ==
    /\ alive
    /\ statusText' = "Starting..."
    /\ IF privateKeys = <<>>
       THEN /\ Logged(<<Entry("No private keys loaded. Add keys to pk.txt", "error", 0)>>)
            /\ UNCHANGED <<activityRunning, shouldStop, loops, trace, run>>
       ELSE LET seg == LoopTest(NewActivation, FALSE,
                                <<Entry("Starting activity loop", "success", 0)>>)
            IN  /\ Logged(seg.out)
                /\ Traced(seg.ev)
                /\ loops' = Append(loops, seg.a)
                /\ activityRunning' = TRUE
                /\ shouldStop' = FALSE
                /\ Noted(Started)
    /\ UNCHANGED <<privateKeys, proxies, dailyActivityConfig, alive, refreshPending,
                   variant, obs, logVars, execVars, fileVars>>

\* "Start Activity" (index.js:434-439, part_000:618-623)
StartActivity ==
    /\ alive
    /\ IF activityRunning
       THEN /\ Logged(<<Entry("Activity already running", "warn", 0)>>)
            /\ UNCHANGED <<activityRunning, shouldStop, statusText, loops, trace, run>>
       ELSE /\ statusText' = Either("Starting...", "Starting activity...")
            /\ RunDailyActivityLoop
    /\ UNCHANGED <<privateKeys, proxies, dailyActivityConfig, alive, refreshPending,
                   variant, obs, logVars, execVars, fileVars>>

\* ghost: a stop request arrived while a Bridge call was in flight
MarkStop == run.stopMark \/ \E k \in 1..Len(loops) : loops[k].pc = "bridge"

\* deliberately wrong variant: a stop request is accepted when nothing runs
StopActivityAlways ==
    /\ alive
    /\ shouldStop' = TRUE
    /\ statusText' = "Stopping..."
    /\ Logged(<<Entry("Stop requested. Waiting for current operations to finish...",
                       "wait", 0)>>)
    /\ Noted([run EXCEPT !.stopReq = TRUE, !.stopMark = MarkStop])
    /\ UNCHANGED <<privateKeys, proxies, dailyActivityConfig, activityRunning, alive, loops,
                   refreshPending, trace, variant, obs, logVars, execVars, fileVars>>

\* "Stop Activity" (index.js:440-446, part_000:624-630)
StopActivity ==
    /\ alive
    /\ IF ~activityRunning
       THEN /\ Logged(<<Entry("Activity not running", "info", 0)>>)
            /\ UNCHANGED <<shouldStop, statusText, run>>
       ELSE /\ shouldStop' = TRUE
            /\ statusText' = "Stopping..."
            /\ Logged(<<Entry(Either("Stop requested. Waiting for current operations to finish...",
                                     "Stop request issued, waiting for operations to finish..."),
                              "wait", 0)>>)
            /\ Noted([run EXCEPT !.stopReq = TRUE, !.stopMark = MarkStop])
    /\ UNCHANGED <<privateKeys, proxies, dailyActivityConfig, activityRunning, alive, loops,
                   refreshPending, trace, variant, obs, logVars, execVars, fileVars>>

\* "Set Config": the Save button of the form (index.js:527-537, part_000:683-689)
\* with the two textbox texts; saved says whether fs.writeFileSync succeeded.  In
\* index.js saveConfig catches and logs the failure; in the variant the exception
\* ends the handler before it logs.
SetConfig(bridgeText, swapText, saved) ==
    /\ alive
    /\ dailyActivityConfig' = [bridgeRepetitions |-> OrOne(ToNumber(bridgeText)),
                               swapRepetitions |-> OrOne(ToNumber(swapText))]
    /\ Logged(Either(<<IF saved THEN Entry("Saved config.json", "success", 0)
                               ELSE Entry("Failed to save config", "error", 0),
                      Entry("Config updated", "success", 0)>>,
                      IF saved THEN <<Entry("Config saved", "success", 0)>> ELSE <<>>))
    /\ Persisted(IF saved THEN Stringify(dailyActivityConfig') ELSE configFile)
    /\ Disturb(dailyActivityConfig' # dailyActivityConfig)
    /\ UNCHANGED <<privateKeys, proxies, activityRunning, shouldStop, statusText, alive,
                   loops, refreshPending, variant, obs, logVars, execVars, pkFile>>

\* "Clear Logs" (index.js:449-452): the buffer itself is in SpecLog
ClearLogs ==
    /\ alive
    /\ Logged(<<Entry("Logs cleared", "success", 0)>>)
    /\ UNCHANGED <<privateKeys, proxies, dailyActivityConfig, activityRunning, shouldStop,
                   statusText, alive, loops, refreshPending, trace, run, variant, obs, logVars, execVars, fileVars>>

\* "Refresh Wallets" (index.js:453-457) up to await refreshWalletList(): keyFile
\* and proxyFile are what pk.txt and proxy.txt hold when they are read.  With no
\* key the balance loop awaits nothing and the handler ends in the same turn.
\* The model follows one suspended handler at a time.  The variant's "Refresh"
\* (part_000:635-636) reads no file and logs nothing: it only awaits
\* refreshWalletList().
RefreshWallets(keyFile, proxyFile) ==
    /\ alive
    /\ privateKeys' = Either(keyFile, privateKeys)
    /\ proxies' = Either(proxyFile, proxies)
    /\ privateKeys' = <<>> \/ ~refreshPending
    /\ refreshPending' = (refreshPending \/ privateKeys' # <<>>)
    /\ Logged(Either(<<IF keyFile = <<>>
                       THEN Entry("No private keys found (pk.txt)", "warn", 0)
                       ELSE Entry("Loaded private key(s)", "success", 0),
                       IF proxyFile = <<>>
                       THEN Entry("No proxies loaded", "info", 0)
                       ELSE Entry("Loaded proxies", "success", 0)>>
                      \o (IF keyFile = <<>>
                          THEN <<Entry("Refreshed environment", "success", 0)>>
                          ELSE <<>>),
                      <<>>))
    /\ Disturb(privateKeys' # privateKeys)
    /\ UNCHANGED <<dailyActivityConfig, activityRunning, shouldStop, statusText, alive,
                   loops, variant, obs, logVars, execVars, fileVars>>

\* await refreshWalletList() returns in a suspended "Refresh Wallets" handler
RefreshDone ==
    /\ alive
    /\ refreshPending
    /\ refreshPending' = FALSE
    /\ Logged(Either(<<Entry("Refreshed environment", "success", 0)>>, <<>>))
    /\ UNCHANGED <<privateKeys, proxies, dailyActivityConfig, activityRunning, shouldStop,
                   statusText, alive, loops, trace, run, variant, obs, logVars, execVars, fileVars>>

DefaultConfig == [bridgeRepetitions |-> 1, swapRepetitions |-> 1]

BlankRun == NewRun

\* "Exit" (index.js:458-460): process.exit(0); nothing in memory outlives it
Exit ==
    /\ alive
    /\ alive' = FALSE
    /\ privateKeys' = <<>>
    /\ proxies' = <<>>
    /\ dailyActivityConfig' = DefaultConfig
    /\ activityRunning' = FALSE
    /\ shouldStop' = FALSE
    /\ statusText' = "Idle"
    /\ loops' = <<>>
    /\ refreshPending' = FALSE
    /\ Logged(<<Entry("Exiting...", "info", 0)>>)
    /\ Traced(<<>>)
    /\ Noted(BlankRun)
    /\ UNCHANGED <<variant, obs, logVars, execVars, fileVars>>

(***************************************************************************)
(* Spec: the state after bootstrap (index.js:561-571) and the steps        *)
(***************************************************************************)
NoExec == [pc |-> "none"]
NoPkFile == [kind |-> "unobserved", lines |-> <<>>]
\* Before any call: nothing submitted, every pending transaction count at 0.
\* pending[<<acct, net>>] is the account's pending count on network "A" or "B",
\* accepted the <<acct, net, nonce>> of every submission the network accepted.
NonceAccounts == 0..1
NoChain ==
    [allowance |-> "short", sent |-> <<>>,
     pending |-> [an \in NonceAccounts \X {"A", "B"} |-> 0], accepted |-> {}]

\* The state once bootstrap (index.js:561-571) or main (part_000:697-704) has
\* loaded pk.txt, proxy.txt and config.json
InitWith(variants, keyFiles, proxyFiles, configInputs, observed) ==
    /\ variant \in variants
    /\ privateKeys \in keyFiles
    /\ proxies \in proxyFiles
    /\ dailyActivityConfig \in [bridgeRepetitions : ValuesOf(configInputs),
                                swapRepetitions : ValuesOf(configInputs)]
    /\ activityRunning = FALSE
    /\ shouldStop = FALSE
    /\ statusText = "Idle"
    /\ alive = TRUE
    /\ loops = <<>>
    /\ refreshPending = FALSE
    /\ logOut = <<>>
    /\ trace = <<>>
    /\ run = BlankRun
    /\ obs = observed
    /\ transactionLogs = <<>>
    /\ appended = 0
    /\ ex = NoExec
    /\ chain = NoChain
    /\ configFile = Unobserved
    /\ pkFile = NoPkFile

\* One turn of the event loop: a menu action, or the runner resumed by a
\* returning executor call or a timer.  config.json is writable.
Step(keyFiles, proxyFiles, configInputs) ==
    \/ StartActivity
    \/ StopActivity
    \/ \E b \in configInputs, s \in configInputs : SetConfig(b, s, TRUE)
    \/ ClearLogs
    \/ \E kf \in keyFiles, pf \in proxyFiles : RefreshWallets(kf, pf)
    \/ RefreshDone
    \/ Exit
    \/ \E k \in 1..Len(loops), ok \in BOOLEAN : BridgeReturn(k, ok)
    \/ \E k \in 1..Len(loops) : BridgeSleepDone(k)
    \/ \E k \in 1..Len(loops) : GapDone(k)
    \/ \E k \in 1..Len(loops), ok \in BOOLEAN : SwapReturn(k, ok)
    \/ \E k \in 1..Len(loops) : SwapSleepDone(k)
    \/ \E k \in 1..Len(loops) : AccountSleepDone(k)
    \/ \E k \in 1..Len(loops) : RunnerFault(k)

\* Spec observes the runs: which executor calls and sleeps each run makes
Programs == {"index", "utb"}
Init == InitWith(Programs, KeyFiles(MaxKeys), ProxyFiles(MaxProxies), ConfigInputs(MaxReps), {"run"})
Next == Step(KeyFiles(MaxKeys), ProxyFiles(MaxProxies), ConfigInputs(MaxReps))
Spec == Init /\ [][Next]_vars

\* SpecOut observes the log entries of every turn, over proxy lists one shorter
InitOut == InitWith(Programs, KeyFiles(MaxKeys), ProxyFiles(MaxProxies - 1), ConfigInputs(MaxReps), {"log"})
NextOut == Step(KeyFiles(MaxKeys), ProxyFiles(MaxProxies - 1), ConfigInputs(MaxReps))
SpecOut == InitOut /\ [][NextOut]_vars

\* SpecOutcome observes the runs and what their executor calls returned, over
\* proxy lists one shorter
InitOutcome ==
    InitWith(Programs, KeyFiles(MaxKeys), ProxyFiles(MaxProxies - 1), ConfigInputs(MaxReps),
             {"run", "outcome"})
SpecOutcome == InitOutcome /\ [][NextOut]_vars

\* SpecSnap observes the runs and the config each run started with, over proxy
\* lists one shorter
InitSnap ==
    InitWith(Programs, KeyFiles(MaxKeys), ProxyFiles(MaxProxies - 1), ConfigInputs(MaxReps),
             {"run", "snapshot"})
SpecSnap == InitSnap /\ [][NextOut]_vars

\* SpecAgain observes the runs and whether the run before was stopped, over
\* proxy lists one shorter
InitAgain ==
    InitWith(Programs, KeyFiles(MaxKeys), ProxyFiles(MaxProxies - 1), ConfigInputs(MaxReps),
             {"run", "history"})
SpecAgain == InitAgain /\ [][NextOut]_vars

\* SpecFair: every timer the loop waits on fires and every executor call it
\* awaits returns
RunnerProgress ==
    \E k \in 1..Len(loops) :
        \/ \E ok \in BOOLEAN : BridgeReturn(k, ok) \/ SwapReturn(k, ok)
        \/ BridgeSleepDone(k) \/ GapDone(k) \/ SwapSleepDone(k) \/ AccountSleepDone(k)
SpecFair == Init /\ [][Next]_vars /\ WF_vars(RunnerProgress)

\* SpecLive: the same steps and the same fairness, observing the program's own
\* state only, over proxy lists one shorter
InitLive ==
    InitWith(Programs, KeyFiles(MaxKeys), ProxyFiles(MaxProxies - 1), ConfigInputs(MaxReps), {})
SpecLive == InitLive /\ [][NextOut]_vars /\ WF_vars(RunnerProgress)

(***************************************************************************)
(* SpecConfig: config.json and the config in memory of index.js, from one  *)
(* launch of the program to the next.  The account list is empty.          *)
(***************************************************************************)
\* loadConfig() (index.js:123-137).  readable: fs.readFileSync returns;
\* writable: fs.writeFileSync returns.  Yields the config in memory, the file
\* and the entries logged.
LoadConfig(config, file, readable, writable) ==
    IF file.kind = "absent"
    THEN IF writable
         THEN [config |-> config, file |-> Stringify(config),
               out |-> <<Entry("Created default config.json", "info", 0)>>]
         ELSE [config |-> config, file |-> file,
               out |-> <<Entry("Failed to load config.json", "error", 0)>>]
    ELSE IF ~readable \/ file.kind # "json"
    THEN [config |-> config, file |-> file,
          out |-> <<Entry("Failed to load config.json", "error", 0)>>]
    ELSE [config |-> [bridgeRepetitions |-> OrOne(ToNumber(file.bridgeRepetitions)),
                      swapRepetitions |-> OrOne(ToNumber(file.swapRepetitions))],
          file |-> file,
          out |-> <<Entry("Loaded config.json", "success", 0)>>]

\* The program is launched: the module's initial values (index.js:47-52), then
\* bootstrap (index.js:561-571) with no pk.txt, so that refreshWalletList awaits
\* nothing.
Bootstrap(proxyFile, readable, writable) ==
    /\ ~alive
    /\ alive' = TRUE
    /\ privateKeys' = <<>>
    /\ proxies' = proxyFile
    /\ LET r == LoadConfig(DefaultConfig, configFile, readable, writable)
       IN  /\ dailyActivityConfig' = r.config
           /\ Persisted(r.file)
           /\ Logged(<<Entry("Booting universal_testnet_bot (mouse-enabled)...", "info", 0),
                       Entry("No private keys found (pk.txt)", "warn", 0),
                       IF proxyFile = <<>>
                       THEN Entry("No proxies loaded", "info", 0)
                       ELSE Entry("Loaded proxies", "success", 0)>> \o r.out)
    /\ statusText' = "Idle"
    /\ UNCHANGED <<activityRunning, shouldStop, loops, refreshPending, trace, run,
                   variant, obs, logVars, execVars, pkFile>>

InitConfig ==
    /\ variant = "index"
    /\ privateKeys = <<>>
    /\ proxies = <<>>
    /\ dailyActivityConfig = DefaultConfig
    /\ activityRunning = FALSE
    /\ shouldStop = FALSE
    /\ statusText = "Idle"
    /\ alive = FALSE
    /\ loops = <<>>
    /\ refreshPending = FALSE
    /\ logOut = <<>>
    /\ trace = <<>>
    /\ run = BlankRun
    /\ obs = {"log", "file"}
    /\ transactionLogs = <<>>
    /\ appended = 0
    /\ ex = NoExec
    /\ chain = NoChain
    /\ configFile \in ConfigFiles(MaxReps)
    /\ pkFile = NoPkFile

NextConfig ==
    \/ \E readable \in BOOLEAN, writable \in BOOLEAN : Bootstrap(<<>>, readable, writable)
    \/ \E b \in SignedInputs(MaxReps), s \in SignedInputs(MaxReps), saved \in BOOLEAN :
           SetConfig(b, s, saved)
    \/ Exit
SpecConfig == InitConfig /\ [][NextConfig]_vars
(***************************************************************************)
(* SpecKeys: loadPrivateKeys of index.js on pk.txt.  A line of the file is *)
(* described by what the code looks at: whether white space surrounds it,  *)
(* how it begins, how many characters follow and whether all of them are   *)
(* hexadecimal digits.                                                     *)
(***************************************************************************)
MaxLines == 2
KeyHexLen == 64

\* ws: white space (blanks, a carriage return) before or after the text;
\* prefix: "0x", "0X" or none; len: the number of characters after the prefix;
\* hex: they are all in [0-9a-fA-F].  An empty or all-blank line has len 0.
PkLines ==
    [ws : BOOLEAN, prefix : {"", "0x", "0X"},
     len : {0, KeyHexLen - 1, KeyHexLen, KeyHexLen + 1}, hex : BOOLEAN]

\* pk.txt: missing, present but failing to be read, or its lines
PkFiles(max) ==
    {[kind |-> "missing", lines |-> <<>>], [kind |-> "unreadable", lines |-> <<>>]}
        \cup {[kind |-> "text", lines |-> ls] : ls \in UNION {[1..n -> PkLines] : n \in 0..max}}

\* l.trim()
Trim(l) == [l EXCEPT !.ws = FALSE]

\* l.length > 0 on a trimmed line
NonEmpty(l) == l.prefix # "" \/ l.len > 0

TrimAll(ls) == [j \in 1..Len(ls) |-> Trim(ls[j])]

\* readLines(file) (index.js:90-99): [] for a missing file and, after logging,
\* for a read that throws; else the trimmed lines that are not empty
ReadLines(file) ==
    IF file.kind = "text" THEN SelectSeq(TrimAll(file.lines), NonEmpty) ELSE <<>>

\* deliberately wrong variant: an upper-case prefix and longer keys are let through
IsKeyLoosely(k) == k.prefix \in {"", "0x", "0X"} /\ k.len >= KeyHexLen /\ k.hex

\* k.match(/^(0x)?[0-9a-fA-F]{64}$/)
IsKey(k) == k.prefix \in {"", "0x"} /\ k.len = KeyHexLen /\ k.hex /\ ~k.ws

\* loadPrivateKeys() (index.js:111-115)
LoadPrivateKeys ==
    /\ alive
    /\ privateKeys' = SelectSeq(ReadLines(pkFile), IsKey)
    /\ Logged((IF pkFile.kind = "unreadable"
                THEN <<Entry("readLines pk.txt error", "error", 0)>> ELSE <<>>)
               \o <<IF privateKeys' = <<>>
                     THEN Entry("No private keys found (pk.txt)", "warn", 0)
                     ELSE Entry("Loaded private key(s)", "success", 0)>>)
    /\ UNCHANGED <<proxies, dailyActivityConfig, activityRunning, shouldStop, statusText,
                   alive, loops, refreshPending, trace, run, variant, obs, logVars,
                   execVars, fileVars>>

InitKeys ==
    /\ variant = "index"
    /\ privateKeys = <<>>
    /\ proxies = <<>>
    /\ dailyActivityConfig = DefaultConfig
    /\ activityRunning = FALSE
    /\ shouldStop = FALSE
    /\ statusText = "Idle"
    /\ alive = TRUE
    /\ loops = <<>>
    /\ refreshPending = FALSE
    /\ logOut = <<>>
    /\ trace = <<>>
    /\ run = BlankRun
    /\ obs = {"log"}
    /\ transactionLogs = <<>>
    /\ appended = 0
    /\ ex = NoExec
    /\ chain = NoChain
    /\ configFile = Unobserved
    /\ pkFile \in PkFiles(MaxLines)

NextKeys == LoadPrivateKeys
SpecKeys == InitKeys /\ [][NextKeys]_vars

(***************************************************************************)
(* SpecLog: the log buffer.  An entry is the number of the addLog call     *)
(* since the last clear that pushed it.                                    *)
(***************************************************************************)
MaxAppended == 1002

\* transactionLogs.slice(-limit): the last limit entries, all when there are fewer
SliceLast(logs, limit) == SubSeq(logs, Max(1, Len(logs) - limit + 1), Len(logs))

\* deliberately wrong variant: the trim keeps the oldest entries
TrimLogsOldest(logs, limit) == IF Len(logs) > limit THEN SubSeq(logs, 1, limit) ELSE logs

\* trimLogs(limit = 1000)
TrimLogs(logs, limit) == IF Len(logs) > limit THEN SliceLast(logs, limit) ELSE logs

\* addLog: transactionLogs.push(msg); trimLogs()
AddLog(logs, msg) == TrimLogs(Append(logs, msg), LogLimit)

\* any call of addLog
LogAppend ==
    /\ appended < MaxAppended
    /\ transactionLogs' = AddLog(transactionLogs, appended + 1)
    /\ appended' = appended + 1
    /\ UNCHANGED <<runnerVars, execVars, fileVars>>

\* "Clear Logs" (index.js:449-452): transactionLogs = []; addLog("Logs cleared")
LogClear ==
    /\ transactionLogs' = AddLog(<<>>, 1)
    /\ appended' = 1
    /\ UNCHANGED <<runnerVars, execVars, fileVars>>

InitLog == InitWith({"index"}, KeyFiles(0), ProxyFiles(0), ConfigInputs(0), {})
NextLog == LogAppend \/ LogClear
SpecLog == InitLog /\ [][NextLog]_vars

(***************************************************************************)
(* SpecExec: one call of performBridgeSimple or performSwapSimple, from    *)
(* await to await.  Every awaited network call either returns or throws.   *)
(***************************************************************************)
\* ex:    pc        the await the call is suspended at, or "returned"
\*        kind      "bridge" or "swap";  acct  the accountIndex argument
\*        out       the entries the call has logged
\*        result    what the call returned (meaningful once pc = "returned")
\*        failed    ghost: the awaits that threw, and "setup"
\*        confirmed ghost: tx.wait() of the deposit / multicall returned
\*        proxyUrl  the proxyUrl argument;  conn  the provider the call built
\*        queried   ghost: what token.allowance returned ("none" before it did)
\* chain: allowance "enough" or "short" for the amount; sent  the transactions
\*        submitted, each with the contract function and the amount passed to it
RpcA == "https://rpc.random-networkA.test"
RpcB == "https://rpc.random-networkB.test"
ChainIdA == 1337
ChainIdB == 1338
NoConn == [rpcUrl |-> "none", chainId |-> 0, transport |-> Null]

\* getProvider(rpcUrl, chainId, proxyUrl) (index.js:150-153): a JsonRpcProvider
\* on the RPC URL.  The proxyUrl argument is not used: no agent is built, the
\* transport is the direct one (Null).
GetProvider(rpcUrl, chainId, proxyUrl) ==
    [rpcUrl |-> rpcUrl, chainId |-> chainId, transport |-> Null]

Tx(fn, amount, nonce) == [fn |-> fn, amount |-> amount, nonce |-> nonce]

\* the network of the call: A for a bridge, B for a swap
NetOf(e) == IF e.kind = "bridge" THEN "A" ELSE "B"

\* deliberately wrong variant: the nonce is queried once per call and kept
PendingNonceCached(e, c) ==
    IF e.nonce >= 0 THEN e.nonce
    ELSE IF e.acct \in NonceAccounts THEN c.pending[<<e.acct, NetOf(e)>>] ELSE 0

\* provider.getTransactionCount(signer.address, "pending") (index.js:175, 210, 257)
PendingNonce(e, c) ==
    IF e.acct \in NonceAccounts THEN c.pending[<<e.acct, NetOf(e)>>] ELSE 0

\* The network accepts a submission of the call: it is recorded with the nonce
\* it carries.  A specification that observes "nonce" follows the pending counts
\* from call to call; the others leave them at 0.
Submit(e, c, fn, amount) ==
    LET sent == [c EXCEPT !.sent = Append(@, Tx(fn, amount, e.nonce))]
    IN  IF "nonce" \in obs /\ e.acct \in NonceAccounts
        THEN [sent EXCEPT !.pending[<<e.acct, NetOf(e)>>] = @ + 1,
                          !.accepted = @ \cup {<<e.acct, NetOf(e), e.nonce>>}]
        ELSE sent

Executor(kind, acct, proxyUrl) ==
    [pc |-> "setup", kind |-> kind, acct |-> acct, proxyUrl |-> proxyUrl, conn |-> NoConn,
     out |-> <<>>, result |-> FALSE, failed |-> {}, confirmed |-> FALSE, queried |-> "none",
     nonce |-> -1]

\* the provider of the call: network A for a bridge, network B for a swap
\* (index.js:196, 231)
Connected(e) ==
    [e EXCEPT !.conn = IF e.kind = "bridge" THEN GetProvider(RpcA, ChainIdA, e.proxyUrl)
                       ELSE GetProvider(RpcB, ChainIdB, e.proxyUrl)]

Say(e, msg, type) == [e EXCEPT !.out = Append(@, Entry(msg, type, e.acct + 1))]

\* the catch block of the executor (index.js:222-225, 270-273)
CatchAndReturnFalse(e, step) ==
    [Say(e, IF e.kind = "bridge" THEN "bridge error" ELSE "swap error", "error")
        EXCEPT !.pc = "returned", !.result = FALSE, !.failed = @ \cup {step}]

\* performBridgeSimple after `await checkAndApproveIfNeeded(...)`, whose result is
\* dropped (index.js:207-210): log "bridging" and query the nonce
AfterApproval(e) == [Say(e, "bridging tokenA -> router", "info") EXCEPT !.pc = "nonce"]

\* the catch block of checkAndApproveIfNeeded (index.js:187-190): log, return false
ApproveFailed(e, step) ==
    AfterApproval([Say(e, "approve failed", "error") EXCEPT !.failed = @ \cup {step}])

\* The call up to its first await (index.js:193-206, 228-257).  configured: the
\* router address is set; setupOk: the provider, wallet and contract objects
\* are built without an exception; allowance: what the token contract holds.
ExecStart(kind, acct, proxyUrl, configured, setupOk, allowance) ==
    /\ ex.pc \in {"none", "returned"}
    /\ chain' = [chain EXCEPT !.allowance = allowance, !.sent = <<>>]
    /\ ex' = IF ~configured
             THEN [Executor(kind, acct, proxyUrl) EXCEPT
                      !.out = <<Entry(IF kind = "bridge" THEN "Bridge router not configured"
                                      ELSE "Swap router not configured", "error", 0)>>,
                      !.pc = "returned", !.result = FALSE]
             ELSE IF ~setupOk THEN CatchAndReturnFalse(Executor(kind, acct, proxyUrl), "setup")
             ELSE IF kind = "bridge"
             THEN [Connected(Executor(kind, acct, proxyUrl)) EXCEPT !.pc = "allowance"]
             ELSE [Say(Connected(Executor(kind, acct, proxyUrl)), "swapping (template)", "info")
                      EXCEPT !.pc = "nonce"]
    /\ UNCHANGED <<runnerVars, logVars, fileVars>>

\* await token.allowance(...) returns or throws (index.js:169-174)
AllowanceReturns(ok) ==
    /\ ex.pc = "allowance"
    /\ ex' = IF ~ok THEN ApproveFailed(ex, "allowance")
             ELSE IF chain.allowance = "enough"
             THEN AfterApproval([Say(ex, "allowance already OK for bridge token", "debug")
                                    EXCEPT !.queried = "enough"])
             ELSE [Say(ex, "approving bridge token...", "info")
                      EXCEPT !.pc = "approve_nonce", !.queried = "short"]
    /\ UNCHANGED <<chain, runnerVars, logVars, fileVars>>

\* the awaits of the approval: getTransactionCount, getFeeData, token.approve,
\* tx.wait (index.js:175-186)
ApproveStep(ok) ==
    /\ ex.pc \in {"approve_nonce", "approve_fee", "approve_submit", "approve_wait"}
    /\ ex' = IF ~ok THEN ApproveFailed(ex, ex.pc)
             ELSE CASE ex.pc = "approve_nonce" ->
                           [ex EXCEPT !.pc = "approve_fee", !.nonce = PendingNonce(ex, chain)]
                    [] ex.pc = "approve_fee" -> [ex EXCEPT !.pc = "approve_submit"]
                    [] ex.pc = "approve_submit" ->
                           [Say(ex, "approval tx sent", "wait") EXCEPT !.pc = "approve_wait"]
                    [] OTHER -> AfterApproval(Say(ex, "approval mined", "success"))
    /\ chain' = IF ok /\ ex.pc = "approve_submit"
                THEN Submit(ex, chain, "approve", "MaxUint256")
                ELSE IF ok /\ ex.pc = "approve_wait" THEN [chain EXCEPT !.allowance = "enough"]
                ELSE chain
    /\ UNCHANGED <<runnerVars, logVars, fileVars>>

\* the awaits of the deposit / the multicall: getTransactionCount, getFeeData,
\* the submission, tx.wait (index.js:210-221, 258-269)
FinalStep(ok) ==
    /\ ex.pc \in {"nonce", "fee", "submit", "wait"}
    /\ ex' = IF ~ok THEN CatchAndReturnFalse(ex, ex.pc)
             ELSE CASE ex.pc = "nonce" -> [ex EXCEPT !.pc = "fee", !.nonce = PendingNonce(ex, chain)]
                    [] ex.pc = "fee" -> [ex EXCEPT !.pc = "submit"]
                    [] ex.pc = "submit" ->
                           [Say(ex, IF ex.kind = "bridge" THEN "bridge tx sent" ELSE "swap tx sent",
                                "wait") EXCEPT !.pc = "wait"]
                    [] OTHER ->
                           [Say(ex, IF ex.kind = "bridge" THEN "bridge completed"
                                    ELSE "swap completed", "success")
                               EXCEPT !.pc = "returned", !.result = TRUE, !.confirmed = TRUE]
    /\ chain' = IF ok /\ ex.pc = "submit"
                THEN IF ex.kind = "bridge" THEN Submit(ex, chain, "deposit", "amountWei")
                     ELSE Submit(ex, chain, "multicall", "amountInWei")
                ELSE chain
    /\ UNCHANGED <<runnerVars, logVars, fileVars>>

\* what the runner can pass as proxyUrl: a proxy of the list, or null
ProxyArgs(max) == {ProxyFor(px, i) : px \in ProxyFiles(max), i \in 0..max}

InitExec == InitWith({"index"}, KeyFiles(0), ProxyFiles(0), ConfigInputs(0), {})
NextExec ==
    \/ \E kind \in {"bridge", "swap"}, acct \in 0..(MaxKeys - 1),
          proxyUrl \in ProxyArgs(MaxProxies),
          configured \in BOOLEAN, setupOk \in BOOLEAN, allowance \in {"enough", "short"} :
            ExecStart(kind, acct, proxyUrl, configured, setupOk, allowance)
    \/ \E ok \in BOOLEAN : AllowanceReturns(ok)
    \/ \E ok \in BOOLEAN : ApproveStep(ok)
    \/ \E ok \in BOOLEAN : FinalStep(ok)
SpecExec == InitExec /\ [][NextExec]_vars

\* SpecNonce: one executor call after the other for two accounts, every router
\* configured and no proxy, following the pending transaction counts of the
\* accounts on both networks; a call starts while its account's count leaves
\* room for the two submissions a call can make.
MaxNonce == 3
InitNonce == InitWith({"index"}, KeyFiles(0), ProxyFiles(0), ConfigInputs(0), {"nonce"})
NextNonce ==
    \/ \E kind \in {"bridge", "swap"}, acct \in NonceAccounts, allowance \in {"enough", "short"} :
          /\ chain.pending[<<acct, IF kind = "bridge" THEN "A" ELSE "B">>] + 2 <= MaxNonce
          /\ ExecStart(kind, acct, Null, TRUE, TRUE, allowance)
    \/ \E ok \in BOOLEAN : AllowanceReturns(ok)
    \/ \E ok \in BOOLEAN : ApproveStep(ok)
    \/ \E ok \in BOOLEAN : FinalStep(ok)
SpecNonce == InitNonce /\ [][NextNonce]_vars

(***************************************************************************)
(* SpecAmount: the amount of a Bridge call (index.js:201-204,              *)
(* part_000:449-451).  A decimal string is the sequence of its digits      *)
(* after "0."; a base-unit amount is the sequence of its digits, padded on *)
(* the left to the number of decimals.                                     *)
(***************************************************************************)
\* the literals of (Math.random() * (0.03 - 0.01) + 0.01), in hundredths; the
\* variant has 0.05 for 0.03 (part_000:450)
AmountLow == 1
AmountHigh == 3
UtbAmountHigh == 5
FixedDigits == 6
Decimals == 18

Pow10(n) == IF n = 0 THEN 1 ELSE IF n = 1 THEN 10 ELSE IF n = 2 THEN 100
            ELSE IF n = 3 THEN 1000 ELSE IF n = 4 THEN 10000 ELSE 100000

\* the nearest integer to p / q (q even), halves upwards, as toFixed rounds
Round(p, q) == (p + (q \div 2)) \div q

\* (random * (high - low) + low).toFixed(6) for random = r / RandomGrid: the
\* number of millionths in the string
Millionths(low, high, r) ==
    Round(r * (high - low), RandomGrid \div 10000) + low * 10000

\* the digits toFixed(6) writes after "0."
ToFixed(m) == [k \in 1..FixedDigits |-> (m \div Pow10(FixedDigits - k)) % 10]

\* ethers.parseUnits("0." + digits, decimals): the fraction padded with zeros
\* on the right to `decimals` digits
ParseUnits(digits, decimals) ==
    digits \o [k \in 1..(decimals - Len(digits)) |-> 0]

BridgeAmount(r) == ToFixed(Millionths(AmountLow, Either(AmountHigh, UtbAmountHigh), r))

\* const amount = (...).toFixed(6); const amountWei = ethers.parseUnits(amount, 18)
\* for any draw r of Math.random()
DeriveAmount ==
    /\ alive
    /\ ex = NoExec
    /\ \E r \in 0..(RandomGrid - 1) :
           ex' = [pc |-> "amount", amount |-> BridgeAmount(r),
                  amountWei |-> ParseUnits(BridgeAmount(r), Decimals)]
    /\ UNCHANGED <<privateKeys, proxies, dailyActivityConfig, activityRunning, shouldStop,
                   statusText, alive, loops, refreshPending, logOut, trace, run,
                   variant, obs, logVars, chain, fileVars>>

InitAmount == InitWith({"index", "utb"}, KeyFiles(0), ProxyFiles(0), ConfigInputs(0), {})
NextAmount == DeriveAmount
SpecAmount == InitAmount /\ [][NextAmount]_vars

(***************************************************************************)
(* What a run is expected to do                                            *)
(***************************************************************************)
Call(op, i, rep) == [op |-> op, i |-> i, rep |-> rep, lo |-> 0, hi |-> 0]

\* For each account in increasing order: its B Bridge calls, then its S Swap calls
ExpectedCalls(N, B, S) ==
    [j \in 1..(N * (B + S)) |->
        LET i == (j - 1) \div (B + S)
            r == (j - 1) % (B + S)
        IN  IF r < B THEN Call("bridge", i, r) ELSE Call("swap", i, r - B)]

IsBridge(e) == e.op = "bridge"
IsSwap(e) == e.op = "swap"
IsPrefix(p, q) == Len(p) <= Len(q) /\ \A j \in 1..Len(p) : p[j] = q[j]

\* The run the ghosts describe went on under one config and one account list and
\* no stop request was accepted during it
Uncancelled == alive /\ ~run.disturbed /\ ~run.stopReq /\ run.end # "fault"

\* C1: a run that is never cancelled calls the Bridge executor exactly B*N times
\* and the Swap executor exactly S*N times, account by account in increasing
\* order, all Bridge calls of an account before all its Swap calls.
C1_FullRunCallsEveryRepetition ==
    (/\ Uncancelled /\ run.end = "finished"
     /\ dailyActivityConfig.bridgeRepetitions >= 1
     /\ dailyActivityConfig.swapRepetitions >= 1) =>
        LET N == Len(privateKeys)
            B == dailyActivityConfig.bridgeRepetitions
            S == dailyActivityConfig.swapRepetitions
            calls == Calls(trace)
        IN  /\ N >= 1
            /\ Len(SelectSeq(calls, IsBridge)) = B * N
            /\ Len(SelectSeq(calls, IsSwap)) = S * N
            /\ calls = ExpectedCalls(N, B, S)

C1_Witness ==
    /\ Uncancelled /\ run.end = "finished"
    /\ Len(privateKeys) = 2
    /\ dailyActivityConfig = [bridgeRepetitions |-> 2, swapRepetitions |-> 2]
    /\ Len(Calls(trace)) = 8

\* C4: shouldStop is true only while activityRunning is true, and when no loop
\* instance is active both flags are false.
C4_FlagsFollowTheLoop ==
    variant = "index" =>
        /\ shouldStop => activityRunning
        /\ loops = <<>> => (~activityRunning /\ ~shouldStop)

\* a stop request was accepted and the loop has since exited
C4_Witness ==
    variant = "index" /\ alive /\ run.stopReq /\ run.end = "finished" /\ loops = <<>> /\ ~shouldStop

\* C6: the calls of an uncancelled run do not depend on what the executors
\* return: whatever was returned so far, the calls made are the first calls of
\* the expected sequence, each (account, phase, repetition) once, and a run in
\* which a call failed still makes them all.
C6_OutcomesDoNotSteerTheRun ==
    Uncancelled =>
        LET expected == ExpectedCalls(Len(privateKeys), dailyActivityConfig.bridgeRepetitions,
                                      dailyActivityConfig.swapRepetitions)
            calls == Calls(trace)
        IN  /\ IsPrefix(calls, expected)
            /\ \A j, l \in 1..Len(calls) : calls[j] = calls[l] => j = l
            /\ (run.end = "none" /\ loops # <<>>) => calls # <<>>
            /\ (run.end = "finished" /\ run.anyFailed) => calls = expected

C6_Witness ==
    /\ Uncancelled /\ run.end = "finished" /\ run.anyFailed
    /\ Len(Calls(trace)) > 2

\* C2: a stop request that arrives while a Bridge call is in flight leaves that
\* call to return; after it no activation starts a Bridge or a Swap call, for
\* that account or a later one, and the loop exits with both flags false.
StoppedInBridge == variant = "index" /\ alive /\ run.stopMark /\ run.end = "none"
C2_StopDuringBridge ==
    /\ [][(variant = "index" /\ shouldStop' /\ ~shouldStop) => loops' = loops]_vars
    /\ [][StoppedInBridge =>
            /\ \A k \in 1..Len(loops') :
                   loops'[k].pc \in {"bridge", "swap"} => (k <= Len(loops) /\ loops'[k] = loops[k])
            /\ Len(Calls(trace')) <= Len(Calls(trace))]_vars
    /\ StoppedInBridge ~> (loops = <<>> /\ ~activityRunning /\ ~shouldStop)

\* the loop has exited after a stop request that found a Bridge call in flight
C2_Witness ==
    /\ variant = "index" /\ alive /\ run.stopMark /\ run.end = "finished" /\ ~run.disturbed
    /\ loops = <<>> /\ ~activityRunning /\ ~shouldStop
    /\ Len(trace) >= 1
    /\ Len(Calls(trace)) < Len(privateKeys)
                             * (dailyActivityConfig.bridgeRepetitions
                                + dailyActivityConfig.swapRepetitions)

\* The proxy the claim names for account index i
NamedProxy(px, i) == IF px = <<>> THEN Null ELSE px[(i % Len(px)) + 1]

\* An activation that step k begins an account with: a new activation, or one
\* whose account index moved
BeginsAccount(k) == k > Len(loops) \/ loops'[k].i # loops[k].i

\* C9: the proxy an activation takes for account index i, and passes to every
\* executor call for that account, is proxies[i mod len] of the proxy list, or
\* null when the list is empty; both variants of the runner compute it so.
C9_ProxyAssignment ==
    /\ [](\A i \in 0..(MaxKeys - 1) :
            /\ ProxyFor(proxies, i) = NamedProxy(proxies, i)
            /\ ProxyForUTB(proxies, i) = NamedProxy(proxies, i))
    /\ [][\A k \in 1..Len(loops') :
            IF BeginsAccount(k)
            THEN /\ loops'[k].proxyUrl = NamedProxy(proxies, loops'[k].i)
                 /\ loops'[k].pk = privateKeys[loops'[k].i + 1]
            ELSE /\ loops'[k].proxyUrl = loops[k].proxyUrl
                 /\ loops'[k].pk = loops[k].pk]_vars

\* the second account took the only proxy of the list: the index wrapped
C9_Witness ==
    /\ Len(loops) = 1 /\ loops[1].i = 1 /\ loops[1].pc = "bridge"
    /\ Len(proxies) = 1 /\ loops[1].proxyUrl = proxies[1]

\* C3: a start request while a run is active creates no second loop instance and
\* changes neither flag nor the position of the active loop; all it does is log
\* "Activity already running" once.
C3_StartWhileRunning ==
    /\ [](variant = "index" => Len(loops) <= 1 /\ (activityRunning <=> Len(loops) = 1))
    /\ [][(variant = "index" /\ activityRunning /\ StartActivity) =>
            /\ loops' = loops
            /\ activityRunning' = activityRunning
            /\ shouldStop' = shouldStop
            /\ UNCHANGED <<privateKeys, proxies, dailyActivityConfig, statusText, alive,
                           refreshPending>>
            /\ logOut' = <<Entry("Activity already running", "warn", 0)>>]_vars

\* the notice was logged for a loop that waits in its second account
C3_Witness ==
    /\ variant = "index" /\ activityRunning /\ Len(loops) = 1 /\ loops[1].i = 1
    /\ logOut = <<Entry("Activity already running", "warn", 0)>>

\* C5: a start request on an empty account list is rejected: no loop is started,
\* so no executor is called, both flags stay false and one error entry is logged.
NoKeysLogged ==
    <<Entry(Either("No private keys loaded. Add keys to pk.txt",
                   "No private keys loaded. Aborting activity."), "error", 0)>>
C5_StartWithoutAccounts ==
    /\ [](privateKeys = <<>> /\ loops = <<>> => ~activityRunning /\ ~shouldStop)
    /\ [][(~activityRunning /\ privateKeys = <<>> /\ StartActivity) =>
            /\ loops' = <<>>
            /\ ~activityRunning' /\ ~shouldStop'
            /\ Len(logOut') = 1 /\ logOut'[1].type = "error"
            /\ logOut' = NoKeysLogged]_vars

\* the variant has rejected a start request
C5_Witness ==
    /\ variant = "utb"
    /\ alive /\ privateKeys = <<>> /\ loops = <<>> /\ ~activityRunning /\ ~shouldStop
    /\ logOut = NoKeysLogged

\* C7: after a fault in the loop the fault is logged, both flags are false, the
\* process lives, and a start request on a non-empty account list begins a run.
FaultLogged == logOut = <<Entry("Runner unexpected error", "error", 0)>>
C7_FaultEndsTheRunOnly ==
    /\ [][(variant = "index" /\ \E k \in 1..Len(loops) : RunnerFault(k)) => FaultLogged']_vars
    /\ [](FaultLogged => alive /\ ~activityRunning /\ ~shouldStop /\ loops = <<>>)
    /\ [][(variant = "index" /\ alive /\ ~activityRunning /\ privateKeys # <<>>
            /\ StartActivity) =>
            /\ activityRunning' /\ ~shouldStop'
            /\ Len(loops') = 1
            /\ loops'[1].i = 0 /\ loops'[1].b = 0 /\ loops'[1].pc = "bridge"
            /\ logOut'[1] = Entry("Starting activity loop", "success", 0)]_vars

\* a fault has just ended a run and the account list is not empty
C7_Witness ==
    FaultLogged /\ alive /\ privateKeys # <<>> /\ ~activityRunning /\ ~shouldStop

\* C10: the log buffer never holds more than 1000 entries, and it always holds
\* the most recent entries pushed since the last clear, oldest first.
C10_LogBufferKeepsTheNewest ==
    LET kept == Min(appended, LogLimit)
    IN  /\ Len(transactionLogs) <= LogLimit
        /\ transactionLogs = [j \in 1..kept |-> appended - kept + j]

\* two entries were pushed onto a full buffer
C10_Witness ==
    /\ appended = LogLimit + 2
    /\ Len(transactionLogs) = LogLimit
    /\ transactionLogs[1] = 3 /\ transactionLogs[LogLimit] = LogLimit + 2

\* C8: an executor call returns false, after logging an error entry that names
\* the account, whichever of its steps failed, and returns true only when its
\* final transaction was confirmed.
C8_AnyFailureReturnsFalse ==
    ex.pc = "returned" =>
        /\ ex.result \in BOOLEAN
        /\ ex.failed # {} =>
              /\ ex.result = FALSE
              /\ \E j \in 1..Len(ex.out) : ex.out[j].type = "error" /\ ex.out[j].acct = ex.acct + 1
        /\ ex.result => ex.confirmed

ConfigLoaded == logOut # <<>> /\ logOut[Len(logOut)] = Entry("Loaded config.json", "success", 0)

\* C11: a config that was saved loads as the same pair of values, and loading a
\* config.json in which a field is missing or is not a number gives 1 for that
\* field (and the number itself for a field that holds a positive integer).
C11_ConfigRoundTrip ==
    /\ [][(\E b \in SignedInputs(MaxReps), s \in SignedInputs(MaxReps) : SetConfig(b, s, TRUE)) =>
            /\ configFile'.kind = "json"
            /\ LoadConfig(DefaultConfig, configFile', TRUE, TRUE).config = dailyActivityConfig']_vars
    /\ [][((\E r \in BOOLEAN, w \in BOOLEAN : Bootstrap(<<>>, r, w)) /\ ConfigLoaded') =>
            \A f \in {"bridgeRepetitions", "swapRepetitions"} :
                /\ (configFile[f].kind = "digits" /\ configFile[f].n >= 1) =>
                       dailyActivityConfig'[f] = configFile[f].n
                /\ configFile[f].kind \in {"missing", "text"} => dailyActivityConfig'[f] = 1]_vars

\* a launch has loaded a config.json that holds 2 and a field that is no number
C11_Witness ==
    /\ alive /\ ConfigLoaded
    /\ configFile.kind = "json"
    /\ configFile.bridgeRepetitions = [kind |-> "digits", n |-> 2]
    /\ configFile.swapRepetitions.kind = "text"
    /\ dailyActivityConfig = [bridgeRepetitions |-> 2, swapRepetitions |-> 1]

\* C12: whatever was loaded from config.json or typed into the config form, both
\* repetition counts in memory are integers of at least 1.
C12_ConfigValuesArePositive ==
    alive => /\ dailyActivityConfig.bridgeRepetitions >= 1
             /\ dailyActivityConfig.swapRepetitions >= 1

\* C16: after any load and any save, config.json holds the two values that the
\* config in memory holds.
C16_FileEqualsMemory ==
    alive => configFile = Stringify(dailyActivityConfig)

\* The activations whose executor call is in flight, and those in a pacing sleep
InFlight == {k \in 1..Len(loops) : loops[k].pc \in {"bridge", "swap"}}
Pacing ==
    {k \in 1..Len(loops) : loops[k].pc \in {"bridge_sleep", "gap", "swap_sleep", "account_sleep"}}

\* C13: at most one Bridge or Swap executor call is in flight at any moment, and
\* none is in flight while the runner is in a pacing sleep, whatever menu actions
\* are interleaved with the runner.
C13_OneCallAtATime ==
    /\ Cardinality(InFlight) <= 1
    /\ Pacing # {} => InFlight = {}
    /\ Cardinality(InFlight) + Cardinality(Pacing) = Len(loops)

\* a Swap call is in flight while a Refresh Wallets handler waits for balances
\* and a stop request has been accepted
C13_Witness ==
    /\ alive /\ InFlight = {1} /\ loops[1].pc = "swap" /\ loops[1].i = 1
    /\ refreshPending /\ shouldStop

\* the awaits of checkAndApproveIfNeeded
ApprovalSteps == {"allowance", "approve_nonce", "approve_fee", "approve_submit", "approve_wait"}
HasSent(fn) == \E j \in 1..Len(chain.sent) : chain.sent[j].fn = fn
InBridgeCall == ex.pc # "none" /\ ex.kind = "bridge"

\* C14: when the approval step of a Bridge call fails, the call ends there: it
\* returns false and submits no deposit.
C14_FailedApprovalAbortsTheCall ==
    (InBridgeCall /\ ex.failed \cap ApprovalSteps # {}) =>
        /\ ex.pc = "returned" /\ ex.result = FALSE
        /\ ~HasSent("deposit")

\* C17: the provider an executor call builds is routed through the proxy the
\* call was given, and is direct when it was given none.
C17_ConnectionUsesTheProxy ==
    (ex.pc # "none" /\ ex.conn # NoConn) => ex.conn.transport = ex.proxyUrl

\* C20: in a Bridge call the approval is submitted exactly when the queried
\* allowance is short of the amount, it approves the maximum allowance, and the
\* deposit is submitted only once the approval is confirmed.
C20_ApprovalThenDeposit ==
    InBridgeCall =>
        /\ HasSent("approve") => ex.queried = "short"
        /\ (ex.queried = "short" /\ ex.failed = {}
              /\ ex.pc \notin {"approve_nonce", "approve_fee", "approve_submit"}) => HasSent("approve")
        /\ \A j \in 1..Len(chain.sent) :
               chain.sent[j].fn = "approve" => chain.sent[j].amount = "MaxUint256"
        /\ (HasSent("approve") /\ HasSent("deposit")) => "approve_wait" \notin ex.failed

\* C15: while a run is active the account list and the proxy list stay as they
\* are: no step taken during a run, a refresh of the wallets included, changes
\* the accounts or the proxy of any account index.
C15_ListsFixedDuringARun ==
    [][(loops # <<>> /\ loops' # <<>>) =>
          /\ privateKeys' = privateKeys
          /\ \A i \in 0..(MaxKeys - 1) :
                 Either(ProxyFor(proxies', i), ProxyForUTB(proxies', i))
                     = Either(ProxyFor(proxies, i), ProxyForUTB(proxies, i))]_vars

\* A step of the runner itself: an awaited call returns or throws, a timer fires
RunnerStep == RunnerProgress \/ \E k \in 1..Len(loops) : RunnerFault(k)

\* C18: when every call the runner waits for returns and every timer fires,
\* every run that started ends with the runner idle, and so does every run in
\* which a stop was requested.  Nothing but the runner's own step (or the end of
\* the process) ends a run: while the call it waits for does not return, the
\* run stays active and every start request is rejected.
C18_RunsEndWhenCallsReturn ==
    /\ (variant = "index" /\ activityRunning) ~> (loops = <<>> /\ ~activityRunning)
    /\ (variant = "index" /\ shouldStop) ~> (loops = <<>> /\ ~activityRunning /\ ~shouldStop)
    /\ [][(variant = "index" /\ activityRunning /\ ~activityRunning') => (RunnerStep \/ Exit)]_vars
    /\ [][(variant = "index" /\ activityRunning /\ StartActivity) =>
             (loops' = loops /\ activityRunning')]_vars

\* a run that was asked to stop has ended (the status box still shows the
\* accepted stop request)
C18_Witness ==
    /\ variant = "index" /\ alive /\ statusText = "Stopping..."
    /\ privateKeys # <<>> /\ loops = <<>> /\ ~activityRunning /\ ~shouldStop

\* The lines of pk.txt that have the shape of a key, from the first line to the
\* last: an optional "0x" and 64 hexadecimal digits between white space
HasKeyShape(l) == l.prefix \in {"", "0x"} /\ l.len = KeyHexLen /\ l.hex
RECURSIVE KeysIn(_)
KeysIn(ls) ==
    IF ls = <<>> THEN <<>>
    ELSE (IF HasKeyShape(Head(ls)) THEN <<[Head(ls) EXCEPT !.ws = FALSE]>> ELSE <<>>)
             \o KeysIn(Tail(ls))

\* C19: loading the account store gives the lines of pk.txt that have the shape
\* of a key, trimmed, in file order, duplicates kept; a missing file and a file
\* that cannot be read give the empty list, and the program carries on.
C19_LoadedKeysAreTheKeyLines ==
    logOut # <<>> =>
        /\ alive
        /\ pkFile.kind = "text" => privateKeys = KeysIn(pkFile.lines)
        /\ pkFile.kind \in {"missing", "unreadable"} => privateKeys = <<>>
        /\ pkFile.kind = "unreadable" => logOut[1].type = "error"

\* two key lines, the second one with the 0x prefix and surrounded by white
\* space: both are loaded, trimmed, in file order
C19_Witness ==
    /\ logOut # <<>> /\ pkFile.kind = "text" /\ Len(pkFile.lines) = 2
    /\ Len(privateKeys) = 2
    /\ pkFile.lines[2].ws /\ pkFile.lines[2].prefix = "0x"
    /\ privateKeys[2].prefix = "0x" /\ ~privateKeys[2].ws /\ privateKeys[1].prefix = ""

\* C21: every transaction a call submits carries the pending count its account
\* has on that network at the moment of submission, so no two submissions of
\* the same account on the same network carry the same nonce, the approval and
\* the deposit of one Bridge call included.
C21_NoncesAreFresh ==
    /\ [][Len(chain'.sent) > Len(chain.sent) =>
            LET tx == chain'.sent[Len(chain'.sent)]
            IN  /\ tx.nonce = chain.pending[<<ex.acct, NetOf(ex)>>]
                /\ <<ex.acct, NetOf(ex), tx.nonce>> \notin chain.accepted]_vars
    /\ [](\A j, l \in 1..Len(chain.sent) : chain.sent[j].nonce = chain.sent[l].nonce => j = l)
    /\ [](\A an \in DOMAIN chain.pending :
            Cardinality({t \in chain.accepted : <<t[1], t[2]>> = an}) = chain.pending[an])

\* a Bridge call has submitted its approval and its deposit, on an account
\* that had submitted before
C21_Witness ==
    /\ ex.pc = "returned" /\ ex.kind = "bridge" /\ ex.acct = 1
    /\ Len(chain.sent) = 2
    /\ chain.sent[1].fn = "approve" /\ chain.sent[1].nonce = 1
    /\ chain.sent[2].fn = "deposit" /\ chain.sent[2].nonce = 2
    /\ "approve_wait" \in ex.failed

\* The positions of the trace at which account i sleeps between two repetitions
\* of a phase
RepSleepsOf(phase, i) ==
    {j \in 2..Len(trace) :
        trace[j].op = "repSleep" /\ trace[j].i = i /\ trace[j - 1].op = phase}

FullRun ==
    /\ Uncancelled /\ run.end = "finished"
    /\ dailyActivityConfig.bridgeRepetitions >= 1
    /\ dailyActivityConfig.swapRepetitions >= 1

\* C22: in an uncancelled run every account sleeps exactly R-1 times within a
\* phase of R repetitions, each time between 8000 and 20000 ms and between two
\* consecutive calls of that phase; no such sleep follows the last repetition.
C22_RepetitionSleeps ==
    FullRun =>
        /\ \A j \in 1..Len(trace) :
               trace[j].op = "repSleep" =>
                   /\ 8000 <= trace[j].lo /\ trace[j].lo <= trace[j].hi /\ trace[j].hi <= 20000
                   /\ 1 < j /\ j < Len(trace)
                   /\ trace[j - 1].op \in {"bridge", "swap"}
                   /\ trace[j + 1].op = trace[j - 1].op
                   /\ trace[j - 1].i = trace[j].i /\ trace[j + 1].i = trace[j].i
                   /\ trace[j + 1].rep = trace[j - 1].rep + 1
        /\ \A i \in 0..(Len(privateKeys) - 1) :
               /\ Cardinality(RepSleepsOf("bridge", i)) = dailyActivityConfig.bridgeRepetitions - 1
               /\ Cardinality(RepSleepsOf("swap", i)) = dailyActivityConfig.swapRepetitions - 1
        /\ \A j \in 1..(Len(trace) - 1) :
               (\/ trace[j].op = "bridge" /\ trace[j].rep = dailyActivityConfig.bridgeRepetitions - 1
                \/ trace[j].op = "swap" /\ trace[j].rep = dailyActivityConfig.swapRepetitions - 1)
                   => trace[j + 1].op # "repSleep"

\* a full run of two accounts with two Bridge repetitions and one Swap
\* repetition: one sleep per account, in the bridge phase
C22_Witness ==
    /\ FullRun /\ Len(privateKeys) = 2
    /\ dailyActivityConfig = [bridgeRepetitions |-> 2, swapRepetitions |-> 1]
    /\ Cardinality(RepSleepsOf("bridge", 0)) = 1 /\ Cardinality(RepSleepsOf("bridge", 1)) = 1
    /\ RepSleepsOf("swap", 0) = {} /\ RepSleepsOf("swap", 1) = {}

\* The positions of the trace at which account i sleeps between its two phases
GapsOf(i) == {j \in 1..Len(trace) : trace[j].op = "gap" /\ trace[j].i = i}

\* C23: in an uncancelled run every account sleeps exactly once between its
\* last Bridge call and its first Swap call, for 7000 to 15000 ms, in both
\* programs.
C23_OneGapPerAccount ==
    FullRun =>
        \A i \in 0..(Len(privateKeys) - 1) :
            /\ Cardinality(GapsOf(i)) = 1
            /\ \A j \in GapsOf(i) :
                   /\ 7000 <= trace[j].lo /\ trace[j].lo <= trace[j].hi /\ trace[j].hi <= 15000
                   /\ 1 < j /\ j < Len(trace)
                   /\ trace[j - 1] = Call("bridge", i, dailyActivityConfig.bridgeRepetitions - 1)
                   /\ trace[j + 1] = Call("swap", i, 0)

\* a full run of the variant over two accounts: its gaps are the narrower
\* 8000..15000 ms
C23_Witness ==
    /\ FullRun /\ variant = "utb" /\ Len(privateKeys) = 2
    /\ \A i \in 0..1 : \E j \in GapsOf(i) : trace[j].lo = 8000 /\ trace[j].hi = 15000

\* The positions of the trace at which the runner sleeps between two accounts
AccountSleeps == {j \in 1..Len(trace) : trace[j].op = "accountSleep"}

\* C24: an uncancelled run over N accounts sleeps 30000 ms exactly N-1 times,
\* once after the swap phase of every account but the last; the run ends
\* directly after the last Swap call of the last account.
C24_AccountSleeps ==
    FullRun =>
        LET N == Len(privateKeys)
            S == dailyActivityConfig.swapRepetitions
        IN  /\ Cardinality(AccountSleeps) = N - 1
            /\ \A i \in 0..(N - 2) :
                   \E j \in AccountSleeps :
                       /\ trace[j].i = i /\ trace[j].lo = 30000 /\ trace[j].hi = 30000
                       /\ 1 < j /\ j < Len(trace)
                       /\ trace[j - 1] = Call("swap", i, S - 1)
                       /\ trace[j + 1] = Call("bridge", i + 1, 0)
            /\ trace[Len(trace)] = Call("swap", N - 1, S - 1)
            /\ loops = <<>> /\ ~activityRunning

\* a full run of two accounts: one sleep, after the first account
C24_Witness ==
    /\ FullRun /\ Len(privateKeys) = 2
    /\ Cardinality(AccountSleeps) = 1
    /\ \E j \in AccountSleeps : trace[j].i = 0 /\ trace[j + 1] = Call("bridge", 1, 0)

\* C25: the runner never starts the 30 s sleep between two accounts once a stop
\* has been requested: it leaves the loop instead.
C25_StopSkipsTheAccountSleep ==
    [][(/\ Len(trace') > Len(trace)
        /\ trace'[Len(trace')].op = "accountSleep") => ~shouldStop]_vars

\* C26: in the variant, once the activity loop has run to its end or has been
\* stopped and has returned, activityRunning and shouldStop are both false.
C26_VariantFlagsClearAfterTheLoop ==
    (variant = "utb" /\ alive /\ loops = <<>> /\ run.end = "finished")
        => (~activityRunning /\ ~shouldStop)

\* C27: no control handler is left suspended while the runner or another
\* handler takes a step: a step taken while a "Refresh Wallets" handler waits
\* at its await can only be the rest of that handler.
C27_HandlersAreAtomic ==
    [][refreshPending => ~refreshPending']_vars

\* the number a sequence of decimal digits writes
RECURSIVE ValueOf(_)
ValueOf(digits) ==
    IF digits = <<>> THEN 0
    ELSE 10 * ValueOf(SubSeq(digits, 1, Len(digits) - 1)) + digits[Len(digits)]

\* the amounts, in millionths, that the draws of Math.random() give
AmountsDrawn == {ValueOf(BridgeAmount(r)) : r \in 0..(RandomGrid - 1)}

\* C28: the Bridge amount is a whole number of millionths in 10000..50000, each
\* of these values can be drawn, and the base-unit amount is that number times
\* 10^12: its 18 digits are the six digits of the amount followed by twelve
\* zeros.
C28_BridgeAmount ==
    /\ ex.pc = "amount" =>
           /\ ValueOf(ex.amount) \in 10000..50000
           /\ Len(ex.amountWei) = 18
           /\ ValueOf(SubSeq(ex.amountWei, 1, 6)) = ValueOf(ex.amount)
           /\ \A k \in 7..18 : ex.amountWei[k] = 0
    /\ ex.pc = "none" => AmountsDrawn = 10000..50000

\* C29: a change of the config during a run does not change the run: while no
\* stop is requested, a Bridge or Swap call of the run is one of the repetitions
\* configured when the run started, and a phase is left only when all of them
\* have been called.
C29_RunKeepsItsStartingConfig ==
    \A k \in 1..Len(loops) :
        LET a == loops[k]
        IN  /\ a.pc = "bridge" => a.b < run.cfg.bridgeRepetitions
            /\ a.pc = "swap" => a.s < run.cfg.swapRepetitions
            /\ (a.pc = "gap" /\ ~run.stopReq) => a.b = run.cfg.bridgeRepetitions
            /\ (a.pc = "account_sleep" /\ ~run.stopReq) => a.s = run.cfg.swapRepetitions

\* C30: whenever no activity loop is active in index.js (none was started, the
\* run finished, was stopped or faulted, or the start found no account), the
\* status box reads "Idle".
C30_StatusIdleWhenNothingRuns ==
    (alive /\ variant = "index" /\ loops = <<>>) => statusText = "Idle"

FinishedNotice == Entry("Activity loop finished for all accounts", "success", 0)

\* the step logs the notice of index.js that the loop finished
LogsFinished == variant = "index" /\ \E j \in 1..Len(logOut') : logOut'[j] = FinishedNotice

\* an activation is at the end of the swap phase of the last account: the
\* last configured Swap repetition of that account has been called
LastCallReturns ==
    \E k \in 1..Len(loops) :
        /\ loops[k].i >= Len(privateKeys) - 1
        /\ \/ /\ loops[k].pc \in {"swap", "swap_sleep"}
              /\ loops[k].s >= dailyActivityConfig.swapRepetitions - 1
           \/ loops[k].pc = "account_sleep"

\* C31: "Activity loop finished for all accounts" is logged only by the step
\* that follows the last Swap repetition of the last account, that is, at the
\* end of a run that went through every account; a run cut short by a stop
\* request does not log it.
C31_FinishedNoticeOnlyAfterAllAccounts ==
    [][LogsFinished => LastCallReturns]_vars

\* the last run ended after a stop request and a start request is accepted
StartAfterStop ==
    /\ alive /\ ~activityRunning /\ privateKeys # <<>>
    /\ run.stopReq /\ run.end = "finished"
    /\ StartActivity

\* C32: a stop request does not carry over: the start accepted after a stopped
\* run clears shouldStop and begins at account 0 with its first Bridge call, and
\* that run, if it is not stopped itself, makes every Bridge and Swap call of
\* every account.
C32_StopDoesNotCarryOver ==
    /\ [][StartAfterStop =>
            /\ ~shouldStop' /\ activityRunning'
            /\ Len(loops') = 1
            /\ loops'[1].i = 0 /\ loops'[1].b = 0 /\ loops'[1].pc = "bridge"
            /\ trace' = <<Call("bridge", 0, 0)>>]_vars
    /\ []((run.afterStop /\ FullRun) =>
            LET N == Len(privateKeys)
                B == dailyActivityConfig.bridgeRepetitions
                S == dailyActivityConfig.swapRepetitions
            IN  /\ Calls(trace) = ExpectedCalls(N, B, S)
                /\ Len(SelectSeq(trace, IsBridge)) = B * N
                /\ Len(SelectSeq(trace, IsSwap)) = S * N)

\* the variant has finished a full run over two accounts that was started after
\* a stopped run
C32_Witness ==
    /\ variant = "utb" /\ run.afterStop /\ FullRun /\ Len(privateKeys) = 2
    /\ dailyActivityConfig = [bridgeRepetitions |-> 2, swapRepetitions |-> 1]
    /\ Len(Calls(trace)) = 6 /\ loops = <<>> /\ ~activityRunning /\ ~shouldStop

====
